---- MODULE Spec2Model ----
(***************************************************************************)
(* Column storage of docarray's stacked document array:                    *)
(*   docarray/array/stacked/column_storage.py                              *)
(* ColumnStorage owns four column groups (tensor, doc, da, any) and a      *)
(* ChainMap over them; ColumnStorageView is an (index, storage) handle     *)
(* whose reads and writes go through to the columns.                       *)
(*                                                                         *)
(* Columns live in a heap of buffers so that aliasing between a storage    *)
(* and the storages indexed out of it is part of the state: a column is a  *)
(* (buffer, positions) pair, a tensor slice keeps the buffer of its        *)
(* source, every other indexing result gets a buffer of its own.           *)
(***************************************************************************)
EXTENDS Integers, Sequences, FiniteSets, TLC

\* ---- bounds of the model ----
MaxN == 2
MaxStores == 2
MaxViews == 2
MaxSets == 1
MaxListLen == 2

VARIABLES
    heap,     \* buffer id -> sequence of cell values
    stores,   \* the live ColumnStorage objects, in creation order
    views,    \* the live ColumnStorageView objects, in creation order
    last,     \* the last call: operation, arguments, outcome, returned value
    nsets,    \* number of __setitem__ calls made so far
    origin,   \* history: for each live storage, the storage and index expression it came from
    backends, \* PushPullMixin.__backends__: protocol -> registered backend
    calls     \* history: the get_backend calls made so far, with their outcomes

vars == <<heap, stores, views, last, nsets, origin, backends, calls>>

\* __backends__: Dict[str, PushPullLike] = {}
NoBackends == [p \in {} |-> ""]

\* ---- field names and values ----
TensorKeys == <<"vec">>
DocKeys == <<"doc">>
DaKeys == <<"das">>
AnyKeys == <<"id", "tag">>
NestedTensorKeys == <<"emb">>
NestedAnyKeys == <<"id">>
UnknownKey == "nokey"

Range(s) == {s[j] : j \in 1..Len(s)}

FieldKeys == Range(TensorKeys) \cup Range(DocKeys) \cup Range(DaKeys) \cup Range(AnyKeys)
Names == FieldKeys \cup {UnknownKey}
NestedKeys == Range(NestedTensorKeys) \cup Range(NestedAnyKeys)

NewValues == {7}
DocValues == {[k \in NestedKeys |-> v] : v \in NewValues}
ValuesFor(name) == IF name \in Range(DocKeys) THEN DocValues ELSE NewValues

\* ---- index expressions (IndexIterType, plus the integer the view uses) ----
None == <<>>
Some(n) == <<n>>
IsNone(x) == Len(x) = 0

IntItems == {[shape |-> "int", i |-> i] : i \in (-1)..MaxN}
Slice(a, b, c) == [shape |-> "slice", start |-> a, stop |-> b, step |-> c]
SliceItems ==
    { Slice(None, None, 1), Slice(Some(1), None, 1), Slice(None, Some(1), 1),
      Slice(None, None, 2), Slice(None, None, -1), Slice(Some(-1), None, 1) }
IntSeqs == UNION {[1..n -> 0..MaxN] : n \in 0..MaxListLen}
ListItems == {[shape |-> "list", seq |-> q] : q \in IntSeqs}
TupleItems == {[shape |-> "tuple", seq |-> q] : q \in IntSeqs}
MaskItems == {[shape |-> "mask", seq |-> q] : q \in UNION {[1..n -> BOOLEAN] : n \in 1..MaxN}}
\* an object outside IndexIterType, such as a field name
OtherItems == {[shape |-> "other"]}
Items == IntItems \cup SliceItems \cup ListItems \cup TupleItems \cup MaskItems \cup OtherItems

\* ---- Python sequence indexing ----
\* an integer index i addresses a sequence of length n iff -n <= i < n
InRange(i, n) == (-n <= i) /\ (i < n)
Norm(i, n) == IF i < 0 THEN i + n ELSE i

Min(a, b) == IF a < b THEN a ELSE b
Max(a, b) == IF a > b THEN a ELSE b

\* slice.indices(n): the clamped start and stop of a slice over length n
SliceBound(x, n, step, isStart) ==
    IF IsNone(x)
    THEN (IF step > 0 THEN (IF isStart THEN 0 ELSE n)
                      ELSE (IF isStart THEN n - 1 ELSE -1))
    ELSE LET v == IF x[1] < 0 THEN x[1] + n ELSE x[1]
         IN  IF step > 0 THEN Max(0, Min(v, n)) ELSE Max(-1, Min(v, n - 1))

\* range(start, stop, step) as a sequence of 0-based positions
RangeSeq(start, stop, step) ==
    LET cnt == IF step > 0
               THEN (IF stop > start THEN ((stop - start - 1) \div step) + 1 ELSE 0)
               ELSE (IF start > stop THEN ((start - stop - 1) \div (-step)) + 1 ELSE 0)
    IN  [j \in 1..cnt |-> start + (j - 1) * step]

SlicePositions(item, n) ==
    RangeSeq(SliceBound(item.start, n, item.step, TRUE),
             SliceBound(item.stop, n, item.step, FALSE), item.step)

\* positions where a boolean mask is true, in increasing order
RECURSIVE MaskPositions(_, _)
MaskPositions(m, j) ==
    IF j > Len(m) THEN <<>>
    ELSE (IF m[j] THEN <<j - 1>> ELSE <<>>) \o MaskPositions(m, j + 1)

\* the condition a column raises for an index expression, "" when it accepts it
SelectErr(item, n) ==
    CASE item.shape = "slice" -> ""
      [] item.shape = "list" ->
            IF \A j \in 1..Len(item.seq) : InRange(item.seq[j], n) THEN "" ELSE "IndexError"
      [] item.shape = "mask" -> IF Len(item.seq) = n THEN "" ELSE "IndexError"
      [] OTHER -> "IndexError"

\* the source rows (0-based) an accepted index expression selects, in result order
Select(item, n) ==
    CASE item.shape = "slice" -> SlicePositions(item, n)
      [] item.shape = "list" -> [j \in 1..Len(item.seq) |-> Norm(item.seq[j], n)]
      [] item.shape = "mask" -> MaskPositions(item.seq, 1)
      [] OTHER -> <<>>

\* ---- columns and dictionaries ----
\* a column: kind "tensor" (NdArray) or "list" (ListAdvanceIndex) is a leaf over
\* a buffer; kind "doc" is a nested stacked collection with a storage of its own
LeafCol(kind, buf, idx) == [kind |-> kind, buf |-> buf, idx |-> idx]
DocCol(sub) == [kind |-> "doc", storage |-> sub]
\* what col[i] is for an integer i: one cell, not a column
CellCol(v) == [kind |-> "cell", val |-> v]

\* a Python dict: entries in insertion order
Entry(k, c) == [key |-> k, col |-> c]
DictKeys(d) == {d[j].key : j \in 1..Len(d)}
DictGet(d, k) == d[CHOOSE j \in 1..Len(d) : d[j].key = k].col

Storage(t, d, da, a, dt, tt) ==
    [tensor_columns |-> t, doc_columns |-> d, da_columns |-> da, any_columns |-> a,
     document_type |-> dt, tensor_type |-> tt]

NoStorage == Storage(<<>>, <<>>, <<>>, <<>>, "", "")

\* ---- ColumnStorage ----
\* self.columns = ChainMap(tensor_columns, doc_columns, da_columns, any_columns)
ColumnStorage_columns(s) ==
    <<s.tensor_columns, s.doc_columns, s.da_columns, s.any_columns>>

\* variant: the last map, in order, that has the key
ChainMap_getitem_last(maps, name) ==
    LET m == CHOOSE m \in 1..Len(maps) :
                 /\ name \in DictKeys(maps[m])
                 /\ \A m2 \in (m + 1)..Len(maps) : name \notin DictKeys(maps[m2])
    IN  DictGet(maps[m], name)

\* ChainMap.__contains__ / __getitem__: the first map, in order, that has the key
ChainMap_contains(maps, name) == \E m \in 1..Len(maps) : name \in DictKeys(maps[m])
ChainMap_getitem(maps, name) ==
    LET m == CHOOSE m \in 1..Len(maps) :
                 /\ name \in DictKeys(maps[m])
                 /\ \A m2 \in 1..(m - 1) : name \notin DictKeys(maps[m2])
    IN  DictGet(maps[m], name)

\* ChainMap.__len__: len(set().union(*self.maps)), the number of distinct keys
ChainMap_len(maps) == Cardinality(UNION {DictKeys(maps[m]) : m \in 1..Len(maps)})

\* the keys of a dict, in insertion order
DictKeySeq(d) == [j \in 1..Len(d) |-> d[j].key]

\* the keys of maps[m], maps[m-1], ..., maps[1], one map after the other
RECURSIVE ReversedKeys(_, _)
ReversedKeys(maps, m) ==
    IF m = 0 THEN <<>> ELSE DictKeySeq(maps[m]) \o ReversedKeys(maps, m - 1)

\* dict.fromkeys / dict.update: a key keeps the place of its first insertion
RECURSIVE FromKeys(_, _)
FromKeys(q, j) ==
    IF j > Len(q) THEN <<>>
    ELSE (IF \E i \in 1..(j - 1) : q[i] = q[j] THEN <<>> ELSE <<q[j]>>) \o FromKeys(q, j + 1)

\* variant: the keys come in the order of the maps, first map first
ChainMap_keys_forward(maps) ==
    FromKeys(DictKeySeq(maps[1]) \o DictKeySeq(maps[2]) \o DictKeySeq(maps[3])
                \o DictKeySeq(maps[4]), 1)

\* ChainMap.keys(): iterating it runs ChainMap.__iter__, which fills a dict from
\* reversed(self.maps) and iterates that dict
ChainMap_keys(maps) == FromKeys(ReversedKeys(maps, Len(maps)), 1)

\* self.columns[key] on a storage
ColumnStorage_lookup(s, name) ==
    IF ~ChainMap_contains(ColumnStorage_columns(s), name)
    THEN [err |-> "KeyError", val |-> None]
    ELSE [err |-> "", val |-> Some(ChainMap_getitem(ColumnStorage_columns(s), name))]

\* len(column): rows along axis 0; a nested collection has the length of its storage
ColLen(col) ==
    IF col.kind = "doc" THEN Len(DictGet(col.storage.any_columns, "id").idx)
    ELSE Len(col.idx)

\* variant: the length is the number of columns
ColumnStorage_len_columns(s) == ChainMap_len(ColumnStorage_columns(s))

\* ColumnStorage.__len__
ColumnStorage_len(s) == ColLen(DictGet(s.any_columns, "id"))

\* the value a leaf column holds at row i (0-based, in range)
LeafRow(col, i) == heap[col.buf][col.idx[i + 1]]

\* the leaf columns of a nested collection, by field name
DocLeaves(col) == col.storage.tensor_columns \o col.storage.any_columns

\* the value a column holds at row i: a cell, or a document (field -> cell)
ColRow(col, i) ==
    IF col.kind = "doc"
    THEN LET ls == DocLeaves(col)
         IN  [k \in DictKeys(ls) |-> LeafRow(DictGet(ls, k), i)]
    ELSE LeafRow(col, i)

\* ---- indexing a column: col[item] ----
Raise(e) == [err |-> e, col |-> CellCol(0), fresh |-> {}]

\* NdArray.__getitem__ / ListAdvanceIndex.__getitem__ on one leaf column.
\* id names the buffer a copying result allocates.  A tensor slice is a view on
\* the buffer of its source; an integer list or a mask gathers into a new
\* buffer; a list container always builds a new container.
LeafGetItem(col, item, id) ==
    LET n == Len(col.idx)
    IN  IF item.shape = "int"
        THEN (IF InRange(item.i, n)
              THEN [err |-> "", col |-> CellCol(LeafRow(col, Norm(item.i, n))), fresh |-> {}]
              ELSE Raise("IndexError"))
        ELSE IF SelectErr(item, n) # ""
        THEN Raise(SelectErr(item, n))
        ELSE LET sel == Select(item, n)
                 m == Len(sel)
             IN  IF col.kind = "tensor" /\ item.shape = "slice"
                 THEN [err |-> "",
                       col |-> LeafCol(col.kind, col.buf, [j \in 1..m |-> col.idx[sel[j] + 1]]),
                       fresh |-> {}]
                 ELSE [err |-> "",
                       col |-> LeafCol(col.kind, id, [j \in 1..m |-> j]),
                       fresh |-> {[buf |-> id, data |-> [j \in 1..m |-> LeafRow(col, sel[j])]]}]

RECURSIVE ColumnStorage_getitem(_, _, _)

\* col[item] for a column of any group; a nested collection hands every index
\* expression but an integer to its own storage
ColGetItem(col, item, id) ==
    IF col.kind # "doc"
    THEN LeafGetItem(col, item, id)
    ELSE IF item.shape = "int"
    THEN (IF InRange(item.i, ColLen(col))
          THEN [err |-> "", col |-> CellCol(ColRow(col, Norm(item.i, ColLen(col)))), fresh |-> {}]
          ELSE Raise("IndexError"))
    ELSE LET r == ColumnStorage_getitem(col.storage, item, id)
         IN  [err |-> r.err, col |-> DocCol(r.storage), fresh |-> r.fresh]

\* {key: col[item] for key, col in d.items()}: the results in dict order
DictComp(d, item, id) ==
    [j \in 1..Len(d) |-> ColGetItem(d[j].col, item, Append(id, d[j].key))]

DictOf(d, rs) == [j \in 1..Len(d) |-> Entry(d[j].key, rs[j].col)]

\* the first condition raised, in evaluation order; "" when none is
FirstErr(rs) ==
    IF \A j \in 1..Len(rs) : rs[j].err = "" THEN ""
    ELSE rs[CHOOSE j \in 1..Len(rs) :
                /\ rs[j].err # ""
                /\ \A j2 \in 1..(j - 1) : rs[j2].err = ""].err

FreshOf(rs) == UNION {rs[j].fresh : j \in 1..Len(rs)}

\* variant: the tuple is handed to the columns as it is
NormalizeItem_keeptuple(item) == item

\* isinstance(item, tuple): item = list(item)
NormalizeItem(item) ==
    IF item.shape = "tuple" THEN [shape |-> "list", seq |-> item.seq] ELSE item

\* the storage a successful call returns, given the per-group results
GetitemResult(s, t, d, da, a, self) ==
    [err |-> "",
     storage |-> Storage(DictOf(s.tensor_columns, t), DictOf(s.doc_columns, d),
                         DictOf(s.da_columns, da), DictOf(s.any_columns, a),
                         s.document_type, s.tensor_type),
     fresh |-> FreshOf(t \o d \o da \o a),
     self |-> self]

\* variant: the condition is wrapped with the group and key of the first
\* column of the storage, the first one indexed
GetitemRaise_named(e, s) ==
    LET g == CHOOSE g \in 1..4 :
                 /\ Len(ColumnStorage_columns(s)[g]) > 0
                 /\ \A g2 \in 1..(g - 1) : Len(ColumnStorage_columns(s)[g2]) = 0
    IN  [err |-> e,
         where |-> << <<"tensor_columns", "doc_columns", "da_columns", "any_columns">>[g],
                      ColumnStorage_columns(s)[g][1].key >>,
         storage |-> NoStorage, fresh |-> {}, self |-> s]

\* a column raised: the condition leaves __getitem__ as the column raised it;
\* where is the column group and key the condition names, none here
GetitemRaise(e, s) ==
    [err |-> e, where |-> <<>>, storage |-> NoStorage, fresh |-> {}, self |-> s]

\* variant: the da group is passed on without being indexed
ColumnStorage_getitem_skipda(s, item0, id) ==
    LET item == NormalizeItem(item0)
        t  == DictComp(s.tensor_columns, item, id)
        d  == DictComp(s.doc_columns, item, id)
        a  == DictComp(s.any_columns, item, id)
        e  == FirstErr(t \o d \o a)
    IN  IF e # "" THEN GetitemRaise(e, s)
        ELSE [err |-> "",
              storage |-> Storage(DictOf(s.tensor_columns, t), DictOf(s.doc_columns, d),
                                  s.da_columns, DictOf(s.any_columns, a),
                                  s.document_type, s.tensor_type),
              fresh |-> FreshOf(t \o d \o a),
              self |-> s]

\* variant: the any group is indexed with the whole-range slice instead of item
ColumnStorage_getitem_anyall(s, item0, id) ==
    LET item == NormalizeItem(item0)
        t  == DictComp(s.tensor_columns, item, id)
        d  == DictComp(s.doc_columns, item, id)
        da == DictComp(s.da_columns, item, id)
        a  == DictComp(s.any_columns,
                       IF item.shape = "int" THEN item ELSE Slice(None, None, 1), id)
        e  == FirstErr(t \o d \o da \o a)
    IN  IF e # "" THEN GetitemRaise(e, s) ELSE GetitemResult(s, t, d, da, a, s)

\* variant: the any group of the result is the any group of self, not indexed
ColumnStorage_getitem_shareany(s, item0, id) ==
    LET item == NormalizeItem(item0)
        t  == DictComp(s.tensor_columns, item, id)
        d  == DictComp(s.doc_columns, item, id)
        da == DictComp(s.da_columns, item, id)
        e  == FirstErr(t \o d \o da)
    IN  IF e # "" THEN GetitemRaise(e, s)
        ELSE [err |-> "",
              storage |-> Storage(DictOf(s.tensor_columns, t), DictOf(s.doc_columns, d),
                                  DictOf(s.da_columns, da), s.any_columns,
                                  s.document_type, s.tensor_type),
              fresh |-> FreshOf(t \o d \o da),
              self |-> s]

\* variant: the indexed groups are assigned to self before the result is built
ColumnStorage_getitem_inplace(s, item0, id) ==
    LET item == NormalizeItem(item0)
        t  == DictComp(s.tensor_columns, item, id)
        d  == DictComp(s.doc_columns, item, id)
        da == DictComp(s.da_columns, item, id)
        a  == DictComp(s.any_columns, item, id)
        e  == FirstErr(t \o d \o da \o a)
        r  == GetitemResult(s, t, d, da, a, s)
    IN  IF e # "" THEN GetitemRaise(e, s) ELSE [r EXCEPT !.self = r.storage]

\* variant: the doc group is built from the da group's items
ColumnStorage_getitem_docfromda(s, item0, id) ==
    LET item == NormalizeItem(item0)
        t  == DictComp(s.tensor_columns, item, id)
        d  == DictComp(s.da_columns, item, Append(id, "doc_columns"))
        da == DictComp(s.da_columns, item, id)
        a  == DictComp(s.any_columns, item, id)
        e  == FirstErr(t \o d \o da \o a)
    IN  IF e # "" THEN GetitemRaise(e, s)
        ELSE [err |-> "",
              storage |-> Storage(DictOf(s.tensor_columns, t), DictOf(s.da_columns, d),
                                  DictOf(s.da_columns, da), DictOf(s.any_columns, a),
                                  s.document_type, s.tensor_type),
              fresh |-> FreshOf(t \o d \o da \o a),
              self |-> s]

\* variant: a mask is cut or padded with False to the length of the storage
ColumnStorage_getitem_fitmask(s, item0, id) ==
    LET n == ColumnStorage_len(s)
        item == IF item0.shape = "mask"
                THEN [shape |-> "mask",
                      seq |-> [j \in 1..n |-> IF j <= Len(item0.seq) THEN item0.seq[j] ELSE FALSE]]
                ELSE NormalizeItem(item0)
        t  == DictComp(s.tensor_columns, item, id)
        d  == DictComp(s.doc_columns, item, id)
        da == DictComp(s.da_columns, item, id)
        a  == DictComp(s.any_columns, item, id)
        e  == FirstErr(t \o d \o da \o a)
    IN  IF e # "" THEN GetitemRaise(e, s) ELSE GetitemResult(s, t, d, da, a, s)

\* variant: the doc group is not carried into the result
ColumnStorage_getitem_dropdoc(s, item0, id) ==
    LET item == NormalizeItem(item0)
        t  == DictComp(s.tensor_columns, item, id)
        da == DictComp(s.da_columns, item, id)
        a  == DictComp(s.any_columns, item, id)
        e  == FirstErr(t \o da \o a)
    IN  IF e # "" THEN GetitemRaise(e, s)
        ELSE [err |-> "",
              storage |-> Storage(DictOf(s.tensor_columns, t), <<>>,
                                  DictOf(s.da_columns, da), DictOf(s.any_columns, a),
                                  s.document_type, s.tensor_type),
              fresh |-> FreshOf(t \o da \o a),
              self |-> s]

\* variant: the result is built with the base document type, not the one of self
ColumnStorage_getitem_basetype(s, item0, id) ==
    LET item == NormalizeItem(item0)
        t  == DictComp(s.tensor_columns, item, id)
        d  == DictComp(s.doc_columns, item, id)
        da == DictComp(s.da_columns, item, id)
        a  == DictComp(s.any_columns, item, id)
        e  == FirstErr(t \o d \o da \o a)
    IN  IF e # "" THEN GetitemRaise(e, s)
        ELSE [err |-> "",
              storage |-> Storage(DictOf(s.tensor_columns, t), DictOf(s.doc_columns, d),
                                  DictOf(s.da_columns, da), DictOf(s.any_columns, a),
                                  "BaseDocument", s.tensor_type),
              fresh |-> FreshOf(t \o d \o da \o a),
              self |-> s]

\* ColumnStorage.__getitem__: the same item on every column of the four groups,
\* group after group; the first column that raises ends the call.  The result
\* carries the condition raised, the storage returned, the buffers the new
\* columns allocate, and self as the call leaves it.
ColumnStorage_getitem(s, item0, id) ==
    LET item == NormalizeItem(item0)
        t  == DictComp(s.tensor_columns, item, id)
        d  == DictComp(s.doc_columns, item, id)
        da == DictComp(s.da_columns, item, id)
        a  == DictComp(s.any_columns, item, id)
        e  == FirstErr(t \o d \o da \o a)
    IN  IF e # "" THEN GetitemRaise(e, s) ELSE GetitemResult(s, t, d, da, a, s)

\* the heap after the buffers of an indexing result are allocated
Alloc(h, fresh) ==
    [b \in DOMAIN h \cup {f.buf : f \in fresh} |->
        IF b \in DOMAIN h THEN h[b] ELSE (CHOOSE f \in fresh : f.buf = b).data]

\* ---- ColumnStorageView ----
\* ColumnStorageView.__init__: super().__init__() leaves the dict part empty
ColumnStorageView_init(index, storage) ==
    [index |-> index, storage |-> storage, data |-> <<>>]

\* variant: the index is wrapped into the column's range before the read
ColumnStorageView_getitem_wrap(v, name) ==
    LET maps == ColumnStorage_columns(stores[v.storage])
    IN  IF ~ChainMap_contains(maps, name)
        THEN [err |-> "KeyError", val |-> None]
        ELSE LET col == ChainMap_getitem(maps, name)
             IN  IF ColLen(col) = 0
                 THEN [err |-> "IndexError", val |-> None]
                 ELSE [err |-> "", val |-> Some(ColRow(col, v.index % ColLen(col)))]

\* ColumnStorageView.__getitem__: self.storage.columns[name][self.index]
ColumnStorageView_getitem(v, name) ==
    LET maps == ColumnStorage_columns(stores[v.storage])
    IN  IF ~ChainMap_contains(maps, name)
        THEN [err |-> "KeyError", val |-> None]
        ELSE LET col == ChainMap_getitem(maps, name)
             IN  IF ~InRange(v.index, ColLen(col))
                 THEN [err |-> "IndexError", val |-> None]
                 ELSE [err |-> "", val |-> Some(ColRow(col, Norm(v.index, ColLen(col))))]

\* the buffer cells col[i] = value writes: one cell of a leaf, one cell per
\* field of a nested collection
ColWrites(col, i, value) ==
    IF col.kind = "doc"
    THEN LET ls == DocLeaves(col)
         IN  {[buf |-> DictGet(ls, k).buf, pos |-> DictGet(ls, k).idx[i + 1], val |-> value[k]] :
                 k \in DictKeys(ls)}
    ELSE {[buf |-> col.buf, pos |-> col.idx[i + 1], val |-> value]}

Store(h, ws) ==
    [b \in DOMAIN h |->
        [p \in 1..Len(h[b]) |->
            IF \E w \in ws : w.buf = b /\ w.pos = p
            THEN (CHOOSE w \in ws : w.buf = b /\ w.pos = p).val
            ELSE h[b][p]]]

\* variant: the value goes into the view's own dict, as dict.__setitem__ would
ColumnStorageView_setitem_own(v, name, value) ==
    [err |-> "", heap |-> heap, data |-> Append(v.data, <<name, value>>)]

\* variant: the write goes to row 0 of the column, whatever the view's index
ColumnStorageView_setitem_row0(v, name, value) ==
    LET maps == ColumnStorage_columns(stores[v.storage])
    IN  IF ~ChainMap_contains(maps, name)
        THEN [err |-> "KeyError", heap |-> heap, data |-> v.data]
        ELSE LET col == ChainMap_getitem(maps, name)
             IN  IF ~InRange(v.index, ColLen(col))
                 THEN [err |-> "IndexError", heap |-> heap, data |-> v.data]
                 ELSE [err |-> "", heap |-> Store(heap, ColWrites(col, 0, value)),
                       data |-> v.data]

\* variant: a name that is no column is stored in the view's own dict
ColumnStorageView_setitem_ownmissing(v, name, value) ==
    LET maps == ColumnStorage_columns(stores[v.storage])
    IN  IF ~ChainMap_contains(maps, name)
        THEN [err |-> "", heap |-> heap, data |-> Append(v.data, <<name, value>>)]
        ELSE LET col == ChainMap_getitem(maps, name)
             IN  IF ~InRange(v.index, ColLen(col))
                 THEN [err |-> "IndexError", heap |-> heap, data |-> v.data]
                 ELSE [err |-> "",
                       heap |-> Store(heap, ColWrites(col, Norm(v.index, ColLen(col)), value)),
                       data |-> v.data]

\* variant: the value is written to every row of the column
ColumnStorageView_setitem_allrows(v, name, value) ==
    LET maps == ColumnStorage_columns(stores[v.storage])
    IN  IF ~ChainMap_contains(maps, name)
        THEN [err |-> "KeyError", heap |-> heap, data |-> v.data]
        ELSE LET col == ChainMap_getitem(maps, name)
             IN  IF ~InRange(v.index, ColLen(col))
                 THEN [err |-> "IndexError", heap |-> heap, data |-> v.data]
                 ELSE [err |-> "",
                       heap |-> Store(heap, UNION {ColWrites(col, j, value) :
                                                      j \in 0..(ColLen(col) - 1)}),
                       data |-> v.data]

\* variant: the value is written to the column and kept in the view's own dict too
ColumnStorageView_setitem_both(v, name, value) ==
    LET maps == ColumnStorage_columns(stores[v.storage])
    IN  IF ~ChainMap_contains(maps, name)
        THEN [err |-> "KeyError", heap |-> heap, data |-> v.data]
        ELSE LET col == ChainMap_getitem(maps, name)
             IN  IF ~InRange(v.index, ColLen(col))
                 THEN [err |-> "IndexError", heap |-> heap, data |-> v.data]
                 ELSE [err |-> "",
                       heap |-> Store(heap, ColWrites(col, Norm(v.index, ColLen(col)), value)),
                       data |-> Append(v.data, <<name, value>>)]

\* ColumnStorageView.__setitem__: self.storage.columns[name][self.index] = value
ColumnStorageView_setitem(v, name, value) ==
    LET maps == ColumnStorage_columns(stores[v.storage])
    IN  IF ~ChainMap_contains(maps, name)
        THEN [err |-> "KeyError", heap |-> heap, data |-> v.data]
        ELSE LET col == ChainMap_getitem(maps, name)
             IN  IF ~InRange(v.index, ColLen(col))
                 THEN [err |-> "IndexError", heap |-> heap, data |-> v.data]
                 ELSE [err |-> "",
                       heap |-> Store(heap, ColWrites(col, Norm(v.index, ColLen(col)), value)),
                       data |-> v.data]

\* remove a key from a dict
DictDel(d, k) == SelectSeq(d, LAMBDA e : e.key # k)

\* variant: the key's column is removed from its group when the key is known
ColumnStorageView_delitem_pop(v, key) ==
    LET s == stores[v.storage]
    IN  IF ~ChainMap_contains(ColumnStorage_columns(s), key)
        THEN [err |-> "RuntimeError", stores |-> stores, heap |-> heap]
        ELSE [err |-> "RuntimeError",
              stores |-> [stores EXCEPT ![v.storage] =
                             Storage(DictDel(s.tensor_columns, key), DictDel(s.doc_columns, key),
                                     DictDel(s.da_columns, key), DictDel(s.any_columns, key),
                                     s.document_type, s.tensor_type)],
              heap |-> heap]

\* ColumnStorageView.__delitem__: raises, whatever the key
ColumnStorageView_delitem(v, key) ==
    [err |-> "RuntimeError", stores |-> stores, heap |-> heap]

\* ColumnStorageView.__iter__: self.storage.columns.keys(), the key sequence the
\* returned keys view yields
ColumnStorageView_iter(v) == ChainMap_keys(ColumnStorage_columns(stores[v.storage]))

\* variant: the size is the number of rows of the storage
ColumnStorageView_len_rows(v) == ColumnStorage_len(stores[v.storage])

\* ColumnStorageView.__len__: len(self.storage.columns)
ColumnStorageView_len(v) == ChainMap_len(ColumnStorage_columns(stores[v.storage]))

\* ---- the calls ----
NoItem == [shape |-> "none"]
Call(op, sid, vid, name, val, item, err, ret) ==
    [op |-> op, sid |-> sid, vid |-> vid, name |-> name, val |-> val,
     item |-> item, err |-> err, where |-> <<>>, ret |-> ret]

\* no call is in progress: the caller holds no result
Idle == Call("idle", 0, 0, "", None, NoItem, "", NoStorage)

InitLeaf(kind, id, n) == LeafCol(kind, id, [j \in 1..n |-> j])

InitStorage(n) ==
    Storage(
        <<Entry("vec", InitLeaf("tensor", <<1, "vec">>, n))>>,
        <<Entry("doc", DocCol(Storage(
              <<Entry("emb", InitLeaf("tensor", <<1, "doc", "emb">>, n))>>, <<>>, <<>>,
              <<Entry("id", InitLeaf("list", <<1, "doc", "id">>, n))>>,
              "Inner", "NdArray")))>>,
        <<Entry("das", InitLeaf("list", <<1, "das">>, n))>>,
        <<Entry("id", InitLeaf("list", <<1, "id">>, n)),
          Entry("tag", InitLeaf("list", <<1, "tag">>, n))>>,
        "MyDoc", "NdArray")

InitBufs ==
    {<<1, "vec">>, <<1, "doc", "emb">>, <<1, "doc", "id">>, <<1, "das">>, <<1, "id">>, <<1, "tag">>}

\* one storage of n rows, as the builder hands it over: every column of length
\* n, row j of every column holding j
Init ==
    \E n \in 0..MaxN :
        /\ heap = [b \in InitBufs |-> [j \in 1..n |-> j]]
        /\ stores = <<InitStorage(n)>>
        /\ origin = <<[src |-> 0, shape |-> "built", item |-> NoItem]>>
        /\ views = <<>>
        /\ last = Idle
        /\ nsets = 0
        /\ backends = NoBackends
        /\ calls = <<>>

\* ColumnStorageView(index, storage)
NewView ==
    \E sid \in 1..Len(stores), index \in 0..MaxN :
        /\ last = Idle
        /\ Len(views) < MaxViews
        /\ views' = Append(views, ColumnStorageView_init(index, sid))
        /\ last' = Call("view", sid, Len(views) + 1, "", None, NoItem, "", NoStorage)
        /\ UNCHANGED <<heap, stores, origin, nsets, backends, calls>>

\* view[name]
Get ==
    \E vid \in 1..Len(views), name \in Names :
        LET r == ColumnStorageView_getitem(views[vid], name)
        IN  /\ last = Idle
            /\ last' = Call("get", views[vid].storage, vid, name, r.val, NoItem, r.err, NoStorage)
            /\ UNCHANGED <<heap, stores, origin, views, nsets, backends, calls>>

\* view[name] = value
Set ==
    \E vid \in 1..Len(views), name \in Names :
        \E value \in ValuesFor(name) :
            LET r == ColumnStorageView_setitem(views[vid], name, value)
            IN  /\ last = Idle
                /\ nsets < MaxSets
                /\ heap' = r.heap
                /\ views' = [views EXCEPT ![vid].data = r.data]
                /\ nsets' = nsets + 1
                /\ last' = Call("set", views[vid].storage, vid, name, Some(value), NoItem,
                                r.err, NoStorage)
                /\ UNCHANGED <<stores, origin, backends, calls>>

\* del view[key]
Del ==
    \E vid \in 1..Len(views), key \in Names :
        LET r == ColumnStorageView_delitem(views[vid], key)
        IN  /\ last = Idle
            /\ stores' = r.stores
            /\ heap' = r.heap
            /\ last' = Call("del", views[vid].storage, vid, key, None, NoItem, r.err, NoStorage)
            /\ UNCHANGED <<origin, views, nsets, backends, calls>>

\* iter-protocol entry of a view: view.__iter__()
Iter ==
    \E vid \in 1..Len(views) :
        /\ last = Idle
        /\ last' = Call("iter", views[vid].storage, vid, "", Some(ColumnStorageView_iter(views[vid])),
                        NoItem, "", NoStorage)
        /\ UNCHANGED <<heap, stores, origin, views, nsets, backends, calls>>

\* len(view)
Size ==
    \E vid \in 1..Len(views) :
        /\ last = Idle
        /\ last' = Call("size", views[vid].storage, vid, "", Some(ColumnStorageView_len(views[vid])),
                        NoItem, "", NoStorage)
        /\ UNCHANGED <<heap, stores, origin, views, nsets, backends, calls>>

\* len(storage)
Length ==
    \E sid \in 1..Len(stores) :
        /\ last = Idle
        /\ last' = Call("len", sid, 0, "", Some(ColumnStorage_len(stores[sid])),
                        NoItem, "", NoStorage)
        /\ UNCHANGED <<heap, stores, origin, views, nsets, backends, calls>>

\* storage.columns[name]
Lookup ==
    \E sid \in 1..Len(stores), name \in Names :
        LET r == ColumnStorage_lookup(stores[sid], name)
        IN  /\ last = Idle
            /\ last' = Call("lookup", sid, 0, name, r.val, NoItem, r.err, NoStorage)
            /\ UNCHANGED <<heap, stores, origin, views, nsets, backends, calls>>

\* storage[item]; a result that is a storage of columns joins the live storages
Index ==
    \E sid \in 1..Len(stores), item \in Items :
        LET new == Len(stores) + 1
            r == ColumnStorage_getitem(stores[sid], item, <<new>>)
            kept == r.err = "" /\ item.shape # "int"
        IN  /\ last = Idle
            /\ Len(stores) < MaxStores
            /\ stores' = LET ss == [stores EXCEPT ![sid] = r.self]
                          IN  IF kept THEN Append(ss, r.storage) ELSE ss
            /\ origin' = IF kept
                         THEN Append(origin, [src |-> sid, shape |-> NormalizeItem(item).shape,
                                              item |-> NormalizeItem(item)])
                         ELSE origin
            /\ heap' = Alloc(heap, r.fresh)
            /\ last' = [Call("index", sid, 0, "", None, item, r.err, r.storage)
                           EXCEPT !.where = IF r.err # "" THEN r.where ELSE <<>>]
            /\ UNCHANGED <<views, nsets, backends, calls>>

\* storage[item] whose result the caller holds only until the call returns:
\* the result does not join the live storages
IndexHeld ==
    \E sid \in 1..Len(stores), item \in Items :
        LET r == ColumnStorage_getitem(stores[sid], item, <<Len(stores) + 1>>)
        IN  /\ last = Idle
            /\ Len(stores) = MaxStores
            /\ stores' = [stores EXCEPT ![sid] = r.self]
            /\ heap' = Alloc(heap, r.fresh)
            /\ last' = [Call("index", sid, 0, "", None, item, r.err, r.storage)
                           EXCEPT !.where = IF r.err # "" THEN r.where ELSE <<>>]
            /\ UNCHANGED <<origin, views, nsets, backends, calls>>

\* the caller takes the result of the call and drops it; the buffers of a
\* result that is not among the live storages go with it.  The core is
\* synchronous, so the next call starts only then
Return ==
    /\ last # Idle
    /\ last' = Idle
    /\ heap' = [b \in {b \in DOMAIN heap : b[1] <= Len(stores)} |-> heap[b]]
    /\ UNCHANGED <<stores, origin, views, nsets, backends, calls>>

Next ==
    NewView \/ Get \/ Set \/ Del \/ Iter \/ Size \/ Length \/ Lookup \/ Index \/ Return

Spec == Init /\ [][Next]_vars

\* indexing alone, results of indexing indexed again
NextIndexing == Index \/ IndexHeld \/ Return

SpecIndexing == Init /\ [][NextIndexing]_vars

\* ---- the lookup alone, over storages whose groups may share keys ----
\* ColumnStorage.__init__ takes the four dicts as they are handed over
LookupKeys == <<"id", "tag">>

\* the column of group g under key k: one row, in a buffer of its own
LookupCol(g, k) ==
    IF g = 1 THEN LeafCol("tensor", <<1, g, k>>, <<1>>)
    ELSE IF g = 2
    THEN DocCol(Storage(<<>>, <<>>, <<>>,
                        <<Entry("id", LeafCol("list", <<1, g, k>>, <<1>>))>>, "Inner", "NdArray"))
    ELSE LeafCol("list", <<1, g, k>>, <<1>>)

\* the dict of group g when key k is put into the groups f[k]
LookupGroup(f, g) ==
    LET ks == SelectSeq(LookupKeys, LAMBDA k : g \in f[k])
    IN  [j \in 1..Len(ks) |-> Entry(ks[j], LookupCol(g, ks[j]))]

InitLookup ==
    \E f \in [Range(LookupKeys) -> (SUBSET (1..4)) \ {{}}] :
        /\ stores = <<Storage(LookupGroup(f, 1), LookupGroup(f, 2), LookupGroup(f, 3),
                              LookupGroup(f, 4), "MyDoc", "NdArray")>>
        /\ heap = [b \in {c \in {<<1, g, k>> : g \in 1..4, k \in Range(LookupKeys)} :
                                c[2] \in f[c[3]]}
                       |-> <<b[2]>>]
        /\ origin = <<[src |-> 0, shape |-> "built", item |-> NoItem]>>
        /\ views = <<>>
        /\ last = Idle
        /\ nsets = 0
        /\ backends = NoBackends
        /\ calls = <<>>

NextLookup == Lookup \/ Return

SpecLookup == InitLookup /\ [][NextLookup]_vars

\* ---- AbstractTensor.__docarray_validate_shape__ ----
\* docarray/typing/tensor/abstract_tensor.py
MaxRank == 3
MaxDim == 2

\* a dimension of a declared shape: an integer, or a name
IntDim(n) == [kind |-> "int", n |-> n, name |-> ""]
StrDim(x) == [kind |-> "str", n |-> 0, name |-> x]
DimNames == {"x", "y"}
ShapeDims == {IntDim(n) : n \in 1..MaxDim} \cup {StrDim(x) : x \in DimNames}

\* shapes of tensors, and shapes a field declares
TensorShapes == UNION {[1..r -> 1..MaxDim] : r \in 0..MaxRank}
DeclaredShapes == UNION {[1..r -> ShapeDims] : r \in 0..MaxRank}

\* the conditions the backend's reshape raises when it cannot reshape
ReshapeErrors == {"RuntimeError", "ValueError"}

\* a tensor object: its identity and its shape
Tensor(id, shape) == [id |-> id, shape |-> shape]
NoTensor == Tensor("", <<>>)

RECURSIVE Prod(_)
Prod(q) == IF Len(q) = 0 THEN 1 ELSE q[1] * Prod(Tail(q))

\* comp_be.reshape(t, shape): a new tensor of that shape, when the element
\* counts agree; otherwise the backend raises e
comp_be_reshape(t, shape, e) ==
    IF Prod([j \in 1..Len(shape) |-> shape[j].n]) = Prod(t.shape)
    THEN [err |-> "", ret |-> Tensor("reshaped", [j \in 1..Len(shape) |-> shape[j].n])]
    ELSE [err |-> e, ret |-> NoTensor]

\* tshape == shape: a tuple of integers against the declared tuple
ShapeEq(tshape, shape) ==
    /\ Len(tshape) = Len(shape)
    /\ \A j \in 1..Len(shape) : shape[j].kind = "int" /\ shape[j].n = tshape[j]

\* variant: a name takes the size of the last position that carries it, unchecked
RECURSIVE DimsLoop_lastwins(_, _, _, _)
DimsLoop_lastwins(tshape, shape, j, known_dims) ==
    IF j > Len(shape) THEN ""
    ELSE IF shape[j].kind = "int" /\ tshape[j] # shape[j].n THEN "ValueError"
    ELSE IF shape[j].kind = "str"
    THEN DimsLoop_lastwins(tshape, shape, j + 1,
                           [known_dims EXCEPT ![shape[j].name] = tshape[j]])
    ELSE DimsLoop_lastwins(tshape, shape, j + 1, known_dims)

\* for tdim, dim in zip(tshape, shape): from position j on, with the sizes
\* known_dims has recorded for the names (0: none yet); "" when the loop ends
\* without raising
RECURSIVE DimsLoop(_, _, _, _)
DimsLoop(tshape, shape, j, known_dims) ==
    IF j > Len(shape) THEN ""
    ELSE IF shape[j].kind = "int" /\ tshape[j] # shape[j].n THEN "ValueError"
    ELSE IF shape[j].kind = "str"
    THEN (IF known_dims[shape[j].name] # 0 /\ known_dims[shape[j].name] # tshape[j]
          THEN "ValueError"
          ELSE DimsLoop(tshape, shape, j + 1,
                        [known_dims EXCEPT ![shape[j].name] = tshape[j]]))
    ELSE DimsLoop(tshape, shape, j + 1, known_dims)

\* __docarray_validate_shape__(t, shape), with e the condition the backend
\* raises if it is asked for a reshape it cannot do
docarray_validate_shape(t, shape, e) ==
    LET tshape == t.shape
    IN  IF ShapeEq(tshape, shape)
        THEN [err |-> "", ret |-> t]
        ELSE IF \E j \in 1..Len(shape) : shape[j].kind = "str"
        THEN (IF Len(tshape) # Len(shape)
              THEN [err |-> "ValueError", ret |-> NoTensor]
              ELSE LET r == DimsLoop(tshape, shape, 1, [x \in DimNames |-> 0])
                   IN  IF r # "" THEN [err |-> r, ret |-> NoTensor]
                       ELSE [err |-> "", ret |-> t])
        ELSE LET r == comp_be_reshape(t, shape, e)
             IN  IF r.err = "RuntimeError" THEN [err |-> "ValueError", ret |-> NoTensor]
                 ELSE r

\* a tensor is assigned to a field of declared shape
ValidateShape ==
    \E tshape \in TensorShapes, shape \in DeclaredShapes, e \in ReshapeErrors :
        LET t == Tensor("t", tshape)
            r == docarray_validate_shape(t, shape, e)
        IN  /\ last = Idle
            /\ last' = [op |-> "validate_shape", t |-> t, shape |-> shape, raises |-> e,
                        err |-> r.err, ret |-> r.ret]
            /\ UNCHANGED <<heap, stores, origin, views, nsets, backends, calls>>

InitShape ==
    /\ heap = <<>>
    /\ stores = <<>>
    /\ origin = <<>>
    /\ views = <<>>
    /\ last = Idle
    /\ nsets = 0
    /\ backends = NoBackends
    /\ calls = <<>>

NextShape == ValidateShape \/ Return

SpecShape == InitShape /\ [][NextShape]_vars

\* ---- views, and writes that bypass them ----
\* the values a caller writes straight into a column
DirectValues == {9}
DirectValuesFor(name) ==
    IF name \in Range(DocKeys) THEN {[k \in NestedKeys |-> v] : v \in DirectValues}
    ELSE DirectValues

\* storage.columns[name][i] = value, by a caller that holds the storage
DirectWrite ==
    \E sid \in 1..Len(stores), name \in FieldKeys, i \in 0..(MaxN - 1) :
        \E value \in DirectValuesFor(name) :
            /\ last = Idle
            /\ nsets < MaxSets
            /\ i < ColumnStorage_len(stores[sid])
            /\ heap' = Store(heap, ColWrites(ColumnStorage_lookup(stores[sid], name).val[1], i, value))
            /\ nsets' = nsets + 1
            /\ last' = Call("write", sid, 0, name, Some(value), [shape |-> "int", i |-> i], "",
                            NoStorage)
            /\ UNCHANGED <<stores, origin, views, backends, calls>>

NextViews == NewView \/ Get \/ Set \/ DirectWrite \/ Return

SpecViews == Init /\ [][NextViews]_vars

\* ---- PushPullMixin.get_backend ----
\* docarray/array/array/pushpull/__init__.py
MaxCalls == 3

\* protocols a caller may name; "ftp" stands for any protocol the code does not know
Protocols == {"jinaai", "file", "s3", "ftp"}

\* variant: the file protocol is entered into the registry before the call raises
PushPullMixin_get_backend_placeholder(protocol) ==
    IF protocol \in DOMAIN backends
    THEN [err |-> "", ret |-> backends[protocol], backends |-> backends]
    ELSE IF protocol = "jinaai"
    THEN LET reg == [p \in DOMAIN backends \cup {protocol} |->
                        IF p = protocol THEN "PushPullJAC" ELSE backends[p]]
         IN  [err |-> "", ret |-> reg[protocol], backends |-> reg]
    ELSE IF protocol = "file"
    THEN [err |-> "NotImplementedError", ret |-> "",
          backends |-> [p \in DOMAIN backends \cup {protocol} |->
                           IF p = protocol THEN "PushPullFile" ELSE backends[p]]]
    ELSE [err |-> "NotImplementedError", ret |-> "", backends |-> backends]

\* PushPullMixin.get_backend(protocol): the condition raised, the backend
\* returned, and __backends__ as the call leaves it
PushPullMixin_get_backend(protocol) ==
    IF protocol \in DOMAIN backends
    THEN [err |-> "", ret |-> backends[protocol], backends |-> backends]
    ELSE IF protocol = "jinaai"
    THEN LET reg == [p \in DOMAIN backends \cup {protocol} |->
                        IF p = protocol THEN "PushPullJAC" ELSE backends[p]]
         IN  [err |-> "", ret |-> reg[protocol], backends |-> reg]
    ELSE IF protocol = "file"
    THEN [err |-> "NotImplementedError", ret |-> "", backends |-> backends]
    ELSE IF protocol = "s3"
    THEN [err |-> "NotImplementedError", ret |-> "", backends |-> backends]
    ELSE [err |-> "NotImplementedError", ret |-> "", backends |-> backends]

\* cls.get_backend(protocol)
GetBackend ==
    \E protocol \in Protocols :
        LET r == PushPullMixin_get_backend(protocol)
        IN  /\ last = Idle
            /\ Len(calls) < MaxCalls
            /\ backends' = r.backends
            /\ calls' = Append(calls, [protocol |-> protocol, err |-> r.err, ret |-> r.ret])
            /\ last' = [op |-> "get_backend", protocol |-> protocol, err |-> r.err, ret |-> r.ret]
            /\ UNCHANGED <<heap, stores, origin, views, nsets>>

InitBackend ==
    /\ heap = <<>>
    /\ stores = <<>>
    /\ origin = <<>>
    /\ views = <<>>
    /\ last = Idle
    /\ nsets = 0
    /\ backends = NoBackends
    /\ calls = <<>>

NextBackend == GetBackend \/ Return

SpecBackend == InitBackend /\ [][NextBackend]_vars

\* ======================= properties =======================
IsColumn(col) == col.kind \in {"tensor", "list", "doc"}

\* every column of a dict is a column of n rows
DictAligned(d, n) ==
    \A p \in 1..Len(d) : IsColumn(d[p].col) /\ ColLen(d[p].col) = n

\* I1 for a storage without nested collections
FlatAligned(s, n) ==
    /\ DictAligned(s.tensor_columns, n) /\ DictAligned(s.da_columns, n)
    /\ DictAligned(s.any_columns, n)

\* I1 with I3's length: every column of the four groups, and every column of
\* every nested collection, has the length of any_columns['id']
Aligned(s) ==
    /\ "id" \in DictKeys(s.any_columns)
    /\ IsColumn(DictGet(s.any_columns, "id"))
    /\ LET n == ColumnStorage_len(s)
       IN  /\ FlatAligned(s, n)
           /\ \A p \in 1..Len(s.doc_columns) :
                 LET c == s.doc_columns[p].col
                 IN  /\ c.kind = "doc"
                     /\ "id" \in DictKeys(c.storage.any_columns)
                     /\ FlatAligned(c.storage, n)

\* I2: no field name is in two groups
KeysDisjoint(s) ==
    \A g, h \in 1..4 :
        g # h => DictKeys(ColumnStorage_columns(s)[g]) \cap DictKeys(ColumnStorage_columns(s)[h]) = {}

\* the result has the keys of the source, and row j of every column of every
\* group of the result is row rows[j] of the source column
RowsAre(src, ret, rows) ==
    \A g \in 1..4 :
        LET ds == ColumnStorage_columns(src)[g]
            dr == ColumnStorage_columns(ret)[g]
        IN  /\ Len(dr) = Len(ds)
            /\ \A p \in 1..Len(ds) :
                  /\ dr[p].key = ds[p].key
                  /\ IsColumn(dr[p].col)
                  /\ ColLen(dr[p].col) = Len(rows)
                  /\ \A j \in 1..Len(rows) :
                        ColRow(dr[p].col, j - 1) = ColRow(ds[p].col, rows[j])

\* C1 (alignment invariant): every live storage, the built one and every one
\* indexed out of a live storage by a slice, an integer list or tuple, or a
\* boolean mask, whatever writes went through views before, has all columns of
\* all four groups of the length of its own any_columns['id'].
Thm_C1_Alignment == \A sid \in 1..Len(stores) : Aligned(stores[sid])

Wit_C1_Alignment ==
    /\ last.op = "index" /\ last.err = "" /\ nsets > 0 /\ Len(stores) = 2
    /\ 0 < ColumnStorage_len(stores[2])
    /\ ColumnStorage_len(stores[2]) < ColumnStorage_len(stores[1])

\* C2 (write-through round trip): after view[k] = v through a view with index
\* in [0,N) and a key k of the storage, the call has succeeded, view[k] is v, a
\* fresh view on the same (storage, index) reads v, and the column held in the
\* storage's group map holds v at that row.
Thm_C2_WriteThrough ==
    (last.op = "set"
        /\ views[last.vid].index < ColumnStorage_len(stores[last.sid])
        /\ last.name \in FieldKeys)
    => LET v == views[last.vid]
           s == stores[v.storage]
       IN  /\ last.err = ""
           /\ ColumnStorageView_getitem(v, last.name) = [err |-> "", val |-> last.val]
           /\ ColumnStorageView_getitem(ColumnStorageView_init(v.index, v.storage), last.name)
                  = [err |-> "", val |-> last.val]
           /\ \A g \in 1..4 :
                 LET d == ColumnStorage_columns(s)[g]
                 IN  last.name \in DictKeys(d)
                        => Some(ColRow(DictGet(d, last.name), v.index)) = last.val

Wit_C2_WriteThrough ==
    /\ last.op = "set" /\ last.err = "" /\ last.name = "tag"
    /\ views[last.vid].index = 1 /\ last.sid = 2

\* C3 (isolation by index, not by instance): a successful write through one
\* view is what every other view on the same storage and index reads for
\* that key, and no write through a view changes what a view on the same
\* storage with another index reads for any key.
Thm_C3_Isolation ==
    [][ last'.op = "set" =>
          \A w \in 1..Len(views) :
             LET a == views[last'.vid]
                 b == views[w]
             IN  /\ (w # last'.vid /\ b.storage = a.storage /\ b.index = a.index
                        /\ last'.err = "")
                       => \A k \in Names :
                             k = last'.name =>
                                ColumnStorageView_getitem(b, k)' = [err |-> "", val |-> last'.val]
                 /\ (b.storage = a.storage /\ b.index # a.index)
                       => \A k \in Names :
                             ColumnStorageView_getitem(b, k)' = ColumnStorageView_getitem(b, k)
      ]_vars

Wit_C3_Isolation ==
    /\ last.op = "set" /\ last.err = "" /\ Len(views) = 2
    /\ views[1].storage = views[2].storage /\ views[1].index = views[2].index

\* C4 (index order fidelity): for a list or a tuple of integers all in [0,N),
\* the call succeeds and row j of every column of every group of the result
\* is row L[j] of the source column.
Thm_C4_OrderFidelity ==
    (last.op = "index" /\ last.item.shape \in {"list", "tuple"}
        /\ \A j \in 1..Len(last.item.seq) :
              last.item.seq[j] < ColumnStorage_len(stores[last.sid]))
    => /\ last.err = ""
       /\ RowsAre(stores[last.sid], last.ret, last.item.seq)

Wit_C4_OrderFidelity ==
    /\ last.op = "index" /\ last.err = "" /\ last.item.shape = "tuple"
    /\ last.item.seq = <<1, 0>> /\ nsets > 0

\* the positions (0-based) at which a mask is true, in increasing order
TruePositions(m) ==
    CHOOSE f \in [1..Cardinality({i \in 1..Len(m) : m[i]}) -> 0..(Len(m) - 1)] :
        /\ \A j \in DOMAIN f : m[f[j] + 1]
        /\ \A j, k \in DOMAIN f : j < k => f[j] < f[k]

\* C5 (boolean mask selection): for a mask of length N the call succeeds and
\* every column of every group of the result holds exactly the source rows at
\* which the mask is true, in their original order.
Thm_C5_MaskSelection ==
    (last.op = "index" /\ last.item.shape = "mask"
        /\ Len(last.item.seq) = ColumnStorage_len(stores[last.sid]))
    => /\ last.err = ""
       /\ RowsAre(stores[last.sid], last.ret, TruePositions(last.item.seq))

Wit_C5_MaskSelection ==
    /\ last.op = "index" /\ last.err = "" /\ last.item.shape = "mask"
    /\ last.item.seq = <<FALSE, TRUE>> /\ nsets > 0

\* C6 (index() is a pure constructor): a call of storage[item], whether it
\* returns or raises, leaves every live storage (group maps, key sets, columns)
\* and every cell of every existing buffer as they were; a call that raises
\* returns no storage and creates none.
Thm_C6_PureConstructor ==
    [][ last'.op = "index" =>
          /\ \A sid \in 1..Len(stores) : stores'[sid] = stores[sid]
          /\ \A b \in DOMAIN heap : b \in DOMAIN heap' /\ heap'[b] = heap[b]
          /\ last'.err # "" =>
                /\ last'.ret = NoStorage
                /\ stores' = stores
                /\ heap' = heap
      ]_vars

Wit_C6_PureConstructor ==
    /\ last.op = "index" /\ last.err = "IndexError" /\ nsets > 0
    /\ last.item.shape = "list"

\* the leaf columns of a storage, nested ones included
LeafSet(s) ==
    {s.tensor_columns[p].col : p \in 1..Len(s.tensor_columns)}
    \cup {s.da_columns[p].col : p \in 1..Len(s.da_columns)}
    \cup {s.any_columns[p].col : p \in 1..Len(s.any_columns)}
    \cup UNION {Range([q \in 1..Len(DocLeaves(s.doc_columns[p].col)) |->
                          DocLeaves(s.doc_columns[p].col)[q].col]) :
                   p \in 1..Len(s.doc_columns)}

\* the cells of a leaf column, in row order
LeafRows(col) == [j \in 1..Len(col.idx) |-> LeafRow(col, j - 1)]

\* two live storages one of which was indexed out of the other by a slice, or
\* that are joined by a chain of such steps
SliceEdge(a, b) ==
    \/ (origin[a].shape = "slice" /\ origin[a].src = b)
    \/ (origin[b].shape = "slice" /\ origin[b].src = a)

RECURSIVE SliceClosure(_)
SliceClosure(S) ==
    LET T == S \cup {b \in 1..Len(stores) : \E a \in S : SliceEdge(a, b)}
    IN  IF T = S THEN S ELSE SliceClosure(T)

SliceLinked(a, b) == b \in SliceClosure({a})

\* C7 as stated (slice closure independence): a write through a view on one
\* storage changes no value read from any other storage, in any group.
Cex_C7_Independent ==
    [][ last'.op = "set" =>
          \A sid \in 1..Len(stores) :
             sid # last'.sid =>
                \A c \in LeafSet(stores[sid]) : LeafRows(c)' = LeafRows(c)
      ]_vars

\* C7 as amended: a write through a view on one storage changes a column of
\* another storage only if that column is a tensor column (of the tensor
\* group or of a nested collection) and the two storages are joined by
\* slice indexing; list-backed columns (da, any) are never shared, and a
\* storage indexed out by an integer list, a tuple or a mask shares nothing.
Thm_C7_IndependentButSlices ==
    [][ last'.op = "set" =>
          \A sid \in 1..Len(stores) :
             sid # last'.sid =>
                \A c \in LeafSet(stores[sid]) :
                   LeafRows(c)' # LeafRows(c)
                      => (c.kind = "tensor" /\ SliceLinked(sid, last'.sid))
      ]_vars

Wit_C7_IndependentButSlices ==
    /\ last.op = "set" /\ last.err = "" /\ last.sid = 2 /\ last.name = "tag"
    /\ origin[2].shape = "slice"
    /\ ColumnStorage_len(stores[2]) = ColumnStorage_len(stores[1])

\* I1-I3 for a storage returned by storage[item]
WellFormed(s) == Aligned(s) /\ KeysDisjoint(s)

\* an index expression of an accepted shape, for a storage of n rows
Accepted(item, n) ==
    \/ item.shape = "slice"
    \/ item.shape = "int" /\ item.i >= 0 /\ item.i < n
    \/ item.shape \in {"list", "tuple"}
          /\ \A j \in 1..Len(item.seq) : item.seq[j] < n
    \/ item.shape = "mask" /\ Len(item.seq) = n

\* C8 as stated: for every accepted index shape, a single integer included,
\* the storage returned satisfies I1-I3.
Cex_C8_ResultWellFormed ==
    (last.op = "index" /\ Accepted(last.item, ColumnStorage_len(stores[last.sid])))
    => (last.err = "" /\ WellFormed(last.ret))

\* every entry of every group of the returned object is one cell of the
\* source column, not a column
CellsOf(src, ret, i) ==
    \A g \in 1..4 :
        LET ds == ColumnStorage_columns(src)[g]
            dr == ColumnStorage_columns(ret)[g]
        IN  /\ Len(dr) = Len(ds)
            /\ \A p \in 1..Len(ds) :
                  /\ dr[p].key = ds[p].key
                  /\ dr[p].col = CellCol(ColRow(ds[p].col, i))

\* C8 as amended: for a slice, an integer list or tuple with entries in
\* [0,N), or a mask of length N, the call succeeds and the storage returned
\* satisfies I1-I3; for a single integer in [0,N) the call succeeds and what
\* it returns holds, under every key of every group, the one cell of that
\* row: its entries are not columns, so I1 and I3 do not hold of it.
Thm_C8_ResultWellFormed ==
    (last.op = "index" /\ Accepted(last.item, ColumnStorage_len(stores[last.sid])))
    => /\ last.err = ""
       /\ last.item.shape # "int" => WellFormed(last.ret)
       /\ last.item.shape = "int" =>
             /\ CellsOf(stores[last.sid], last.ret, last.item.i)
             /\ ~Aligned(last.ret)

Wit_C8_ResultWellFormed ==
    /\ last.op = "index" /\ last.err = "" /\ last.item.shape = "int"
    /\ last.item.i = 1 /\ nsets > 0

\* C9 (deletion rejection): del view[key] raises RuntimeError for every key
\* and every storage state, and leaves storages, buffers and views as they were.
Thm_C9_DeleteRejected ==
    [][ last'.op = "del" =>
          /\ last'.err = "RuntimeError"
          /\ stores' = stores /\ heap' = heap /\ views' = views
      ]_vars

Wit_C9_DeleteRejected ==
    /\ last.op = "del" /\ last.name = "tag" /\ last.err = "RuntimeError"
    /\ nsets > 0 /\ views[last.vid].index < ColumnStorage_len(stores[last.sid])

\* an integer, or a list or tuple with an entry, at or beyond n
BeyondEnd(item, n) ==
    \/ item.shape = "int" /\ item.i >= n
    \/ item.shape \in {"list", "tuple"} /\ \E j \in 1..Len(item.seq) : item.seq[j] >= n

KeysOf(s) ==
    DictKeys(s.tensor_columns) \cup DictKeys(s.doc_columns)
        \cup DictKeys(s.da_columns) \cup DictKeys(s.any_columns)

\* C11 (unknown key): a read or a write through a view with a key that is in
\* none of the four groups fails with KeyError; the read returns no value, the
\* write adds no column; storages (key sets and columns), buffers and views
\* are left as they were.
Thm_C11_UnknownKey ==
    [][ (last'.op \in {"get", "set"} /\ last'.name \notin KeysOf(stores[last'.sid]))
          => /\ last'.err = "KeyError"
             /\ last'.op = "get" => last'.val = None
             /\ stores' = stores /\ heap' = heap /\ views' = views
      ]_vars

Wit_C11_UnknownKey ==
    /\ last.op = "set" /\ last.name = UnknownKey /\ last.err = "KeyError"
    /\ views[last.vid].index < ColumnStorage_len(stores[last.sid])
    /\ last.sid > 1

\* C12 (mask and shape rejection): storage[item] with a boolean mask whose
\* length differs from N, or with an object of no index shape, fails with
\* IndexError and returns no storage: no storage is built from a cut or padded
\* mask, and storages and buffers are left as they were.
Thm_C12_MaskShapeRejected ==
    [][ (/\ last'.op = "index"
         /\ \/ last'.item.shape = "mask"
                  /\ Len(last'.item.seq) # ColumnStorage_len(stores[last'.sid])
            \/ last'.item.shape = "other")
          => /\ last'.err = "IndexError"
             /\ last'.ret = NoStorage
             /\ stores' = stores /\ heap' = heap
      ]_vars

Wit_C12_MaskShapeRejected ==
    /\ last.op = "index" /\ last.item.shape = "mask" /\ last.err = "IndexError"
    /\ Len(last.item.seq) = 1 /\ last.item.seq[1]
    /\ ColumnStorage_len(stores[last.sid]) = 2

GroupNames == <<"tensor_columns", "doc_columns", "da_columns", "any_columns">>

\* the columns of s, as <<group, place>>, whose own indexing rejects item
Offenders(s, item) ==
    {gp \in (1..4) \X (1..Cardinality(FieldKeys)) :
        /\ gp[2] <= Len(ColumnStorage_columns(s)[gp[1]])
        /\ ColGetItem(ColumnStorage_columns(s)[gp[1]][gp[2]].col, NormalizeItem(item), <<0>>).err # ""}

\* the offending column: the first one, in evaluation order, to reject item
Offender(s, item) ==
    CHOOSE gp \in Offenders(s, item) :
        \A o \in Offenders(s, item) : gp[1] < o[1] \/ (gp[1] = o[1] /\ gp[2] <= o[2])

\* C13 as stated: when storage[item] fails on a column, the condition raised
\* names the group and the field key of the offending column.
Cex_C13_ErrorNamesColumn ==
    (last.op = "index" /\ last.err # "") =>
        LET gp == Offender(stores[last.sid], last.item)
        IN  last.where = <<GroupNames[gp[1]],
                           ColumnStorage_columns(stores[last.sid])[gp[1]][gp[2]].key>>

\* C13 (error of a failing column): when storage[item] fails on a column, the
\* condition raised is the one the first rejecting column raised itself, passed
\* on unchanged: it names no column group and no field key.
Thm_C13_ColumnErrorPassedOn ==
    (last.op = "index" /\ last.err # "") =>
        /\ Offenders(stores[last.sid], last.item) # {}
        /\ LET gp == Offender(stores[last.sid], last.item)
           IN  last.err = ColGetItem(ColumnStorage_columns(stores[last.sid])[gp[1]][gp[2]].col,
                                     NormalizeItem(last.item), <<0>>).err
        /\ last.where = <<>>

Wit_C13_ColumnErrorPassedOn ==
    /\ last.op = "index" /\ last.err = "IndexError" /\ last.where = <<>>
    /\ last.item.shape = "list" /\ Len(last.item.seq) = 2
    /\ last.item.seq[2] >= ColumnStorage_len(stores[last.sid])
    /\ Offender(stores[last.sid], last.item) = <<1, 1>>

SliceAll == Slice(None, None, 1)

\* the call in progress is storage[:] on a live storage that is itself the
\* storage[:] of another
TwiceSliced ==
    /\ last.op = "index" /\ last.item = SliceAll
    /\ origin[last.sid].item = SliceAll

\* C14 (slice closure idempotence): storage[:][:] is a storage with the N of
\* storage and, for every key of every group and every row, the cell content
\* of storage.
Thm_C14_SliceAllTwice ==
    TwiceSliced =>
        LET s0 == stores[origin[last.sid].src]
        IN  /\ last.err = ""
            /\ ColumnStorage_len(last.ret) = ColumnStorage_len(s0)
            /\ RowsAre(s0, last.ret, [j \in 1..ColumnStorage_len(s0) |-> j - 1])

Wit_C14_SliceAllTwice ==
    /\ TwiceSliced /\ last.err = ""
    /\ ColumnStorage_len(stores[origin[last.sid].src]) = 2
    /\ ColumnStorage_len(last.ret) = 2

\* 0-based position i is in the range a slice describes over length n
InSlice(item, i, n) ==
    LET start == SliceBound(item.start, n, item.step, TRUE)
        stop == SliceBound(item.stop, n, item.step, FALSE)
    IN  IF item.step > 0
        THEN start <= i /\ i < stop /\ (i - start) % item.step = 0
        ELSE stop < i /\ i <= start /\ (start - i) % (-item.step) = 0

\* the number of rows an index expression selects from n rows
SelectedCount(item, n) ==
    CASE item.shape \in {"list", "tuple"} -> Len(item.seq)
      [] item.shape = "mask" -> Cardinality({j \in 1..Len(item.seq) : item.seq[j]})
      [] item.shape = "slice" -> Cardinality({i \in 0..(n - 1) : InSlice(item, i, n)})

\* the rows an index expression selects, in selection order
SelectedRows(item, n) ==
    CASE item.shape \in {"list", "tuple"} -> item.seq
      [] item.shape = "mask" -> TruePositions(item.seq)
      [] item.shape = "slice" -> SlicePositions(item, n)

\* C15 (length of an indexing result): len(storage) is the length of
\* any_columns['id']; the storage that storage[item] returns for a slice, an
\* integer list or tuple, or a mask has as many rows as item selects, and its
\* any_columns['id'] holds the ids of the selected rows in selection order.
Thm_C15_ResultLength ==
    /\ last.op = "len" =>
          last.val = Some(Len(DictGet(stores[last.sid].any_columns, "id").idx))
    /\ (last.op = "index" /\ last.err = "" /\ last.item.shape # "int") =>
          LET src == DictGet(stores[last.sid].any_columns, "id")
              ids == DictGet(last.ret.any_columns, "id")
              n == Len(src.idx)
              rows == SelectedRows(last.item, n)
          IN  /\ ColumnStorage_len(last.ret) = SelectedCount(last.item, n)
              /\ Len(ids.idx) = Len(rows)
              /\ \A j \in 1..Len(rows) : LeafRow(ids, j - 1) = LeafRow(src, rows[j])

Wit_C15_ResultLength ==
    /\ last.op = "index" /\ last.err = ""
    /\ last.item = Slice(None, None, -1)
    /\ ColumnStorage_len(stores[last.sid]) = 2
    /\ ColumnStorage_len(last.ret) = 2
    /\ LeafRow(DictGet(last.ret.any_columns, "id"), 0)
          = LeafRow(DictGet(stores[last.sid].any_columns, "id"), 1)

\* the cell of live storage sid at field k, row j
CellAt(sid, k, j) ==
    LET s == stores[sid]
    IN  ColRow(DictGet(s.tensor_columns \o s.doc_columns \o s.da_columns \o s.any_columns, k), j)

\* C16 (single-cell write): a successful write through a view on row i under
\* key k leaves the storage's key sets, columns and N as they were and gives
\* every cell (k', j) other than (k, i) its previous value, while cell (k, i)
\* holds the value written; a failing write changes no cell; every call that
\* is not a write (get, iterate_keys, size, length, lookup_column among them)
\* leaves storages, buffers and views' own dicts as they were.
Thm_C16_SingleCellWrite ==
    [][ /\ last'.op = "set" =>
              /\ stores' = stores
              /\ \A v \in 1..Len(views) : views'[v] = views[v]
              /\ last'.err # "" => heap' = heap
              /\ last'.err = "" =>
                    \A k \in FieldKeys, j \in 0..(MaxN - 1) :
                        (k \in KeysOf(stores[last'.sid])
                            /\ j < ColumnStorage_len(stores[last'.sid])) =>
                           \A sid \in 1..MaxStores :
                              sid = last'.sid =>
                                 CellAt(sid, k, j)' =
                                    IF k = last'.name /\ j = views[last'.vid].index
                                    THEN last'.val[1]
                                    ELSE CellAt(sid, k, j)
        /\ last'.op \in {"get", "iter", "size", "len", "lookup"} =>
              stores' = stores /\ heap' = heap /\ views' = views
        /\ last'.op # "set" =>
              /\ \A sid \in 1..Len(stores) : stores'[sid] = stores[sid]
              /\ \A b \in DOMAIN heap : b \in DOMAIN heap' /\ heap'[b] = heap[b]
              /\ \A v \in 1..Len(views) : views'[v] = views[v]
      ]_vars

Wit_C16_SingleCellWrite ==
    /\ last.op = "set" /\ last.err = "" /\ last.name = "doc"
    /\ views[last.vid].index = 0
    /\ ColumnStorage_len(stores[last.sid]) = 2
    /\ CellAt(last.sid, "doc", 0) = last.val[1]
    /\ CellAt(last.sid, "doc", 1) # last.val[1]

\* C17 (size is field count): len(view) is the number of columns of the four
\* groups of the view's storage taken together, whatever N and whatever the
\* view's index.
Thm_C17_SizeIsFieldCount ==
    last.op = "size" =>
        LET s == stores[last.sid]
        IN  last.val = Some(Len(s.tensor_columns) + Len(s.doc_columns)
                               + Len(s.da_columns) + Len(s.any_columns))

Wit_C17_SizeIsFieldCount ==
    /\ last.op = "size" /\ last.val = Some(5)
    /\ ColumnStorage_len(stores[last.sid]) = 0
    /\ views[last.vid].index = 2
    /\ last.sid > 1

\* C18 as stated: the keys of a view come in the order tensor group, doc
\* group, da group, any group, in insertion order within a group.
Cex_C18_KeysInGroupOrder ==
    last.op = "iter" =>
        LET s == stores[last.sid]
        IN  last.val = Some(DictKeySeq(s.tensor_columns) \o DictKeySeq(s.doc_columns)
                               \o DictKeySeq(s.da_columns) \o DictKeySeq(s.any_columns))

\* C18 (key enumeration): the keys view that view.__iter__() returns yields
\* every field name of the four groups exactly once, a finite sequence, in the
\* order any group, da group, doc group, tensor group (the reverse of the lookup
\* priority), in insertion order within a group.
Thm_C18_KeysInReverseGroupOrder ==
    last.op = "iter" =>
        LET s == stores[last.sid]
            keys == last.val[1]
        IN  /\ keys = DictKeySeq(s.any_columns) \o DictKeySeq(s.da_columns)
                         \o DictKeySeq(s.doc_columns) \o DictKeySeq(s.tensor_columns)
            /\ \A k \in KeysOf(s) : Cardinality({j \in 1..Len(keys) : keys[j] = k}) = 1
            /\ \A j \in 1..Len(keys) : keys[j] \in KeysOf(s)

Wit_C18_KeysInReverseGroupOrder ==
    /\ last.op = "iter"
    /\ last.val = Some(<<"id", "tag", "das", "doc", "vec">>)
    /\ last.sid > 1

\* the groups of s, by place in the priority order, that hold key k
Holders(s, k) == {g \in 1..4 : k \in DictKeys(ColumnStorage_columns(s)[g])}

\* C19 (lookup priority): storage.columns[key] searches the groups in the
\* order tensor, doc, da, any and returns the column object of the first group
\* that holds key: the group's own column, over the group's own buffer, not a
\* copy; a key that no group holds is a KeyError.
Thm_C19_LookupPriority ==
    last.op = "lookup" =>
        LET s == stores[last.sid]
            hs == Holders(s, last.name)
        IN  IF hs = {}
            THEN last.err = "KeyError" /\ last.val = None
            ELSE LET g == CHOOSE g \in hs : \A h \in hs : g <= h
                 IN  /\ last.err = ""
                     /\ last.val = Some(DictGet(ColumnStorage_columns(s)[g], last.name))

Wit_C19_LookupPriority ==
    /\ last.op = "lookup" /\ last.name = "id" /\ last.err = ""
    /\ Holders(stores[last.sid], "id") = {3, 4}
    /\ last.val = Some(DictGet(stores[last.sid].da_columns, "id"))
    /\ last.val # Some(DictGet(stores[last.sid].any_columns, "id"))

\* a declared shape has a named dimension
Named(shape) == \E j \in 1..Len(shape) : shape[j].kind = "str"

\* the tensor shape fits a declared shape with names: same rank, every integer
\* dimension equal, equal sizes wherever two positions carry the same name
Fits(tshape, shape) ==
    /\ Len(tshape) = Len(shape)
    /\ \A j \in 1..Len(shape) : shape[j].kind = "int" => tshape[j] = shape[j].n
    /\ \A j, k \in 1..Len(shape) :
          (shape[j].kind = "str" /\ shape[k].kind = "str" /\ shape[j].name = shape[k].name)
             => tshape[j] = tshape[k]

\* the number of elements of a shape of integers
Elements(q) == IF Len(q) = 0 THEN 1 ELSE Prod(q)

\* C20 (shape validation with named dimensions): validating t against shape
\* returns t itself when t's shape equals shape; when shape has named
\* dimensions it returns t itself iff t fits (same rank, integer dimensions
\* equal, same-named positions of equal size) and raises ValueError otherwise;
\* when shape is all integers and differs it returns a tensor reshaped to
\* shape, or raises ValueError when the reshape is impossible.
Thm_C20_ValidateShape ==
    last.op = "validate_shape" =>
        LET tshape == last.t.shape
            shape == last.shape
            ints == [j \in 1..Len(shape) |-> shape[j].n]
        IN  IF Named(shape)
            THEN IF Fits(tshape, shape)
                 THEN last.err = "" /\ last.ret = last.t
                 ELSE last.err = "ValueError" /\ last.ret = NoTensor
            ELSE IF tshape = ints
                 THEN last.err = "" /\ last.ret = last.t
                 ELSE IF Elements(tshape) = Elements(ints)
                      THEN last.err = "" /\ last.ret # last.t /\ last.ret.shape = ints
                      ELSE last.err = "ValueError" /\ last.ret = NoTensor

Wit_C20_ValidateShape ==
    /\ last.op = "validate_shape" /\ last.err = "ValueError"
    /\ last.t.shape = <<2, 2, 1>>
    /\ last.shape = <<StrDim("x"), IntDim(2), StrDim("x")>>

\* C21 (key-space closure of indexing): the storage that storage[item] returns
\* has, in each of the four groups, exactly the field names of that group of
\* the source, so its groups' key sets are pairwise disjoint as the source's
\* are, and it carries the source's document_type and tensor_type.
Thm_C21_KeySpaceClosure ==
    (last.op = "index" /\ last.err = "") =>
        LET src == stores[last.sid]
        IN  /\ \A g \in 1..4 :
                  /\ DictKeys(ColumnStorage_columns(last.ret)[g])
                        = DictKeys(ColumnStorage_columns(src)[g])
                  /\ Len(ColumnStorage_columns(last.ret)[g]) = Len(ColumnStorage_columns(src)[g])
            /\ \A g, h \in 1..4 :
                  g # h => DictKeys(ColumnStorage_columns(last.ret)[g])
                              \cap DictKeys(ColumnStorage_columns(last.ret)[h]) = {}
            /\ last.ret.document_type = src.document_type
            /\ last.ret.tensor_type = src.tensor_type

Wit_C21_KeySpaceClosure ==
    /\ last.op = "index" /\ last.err = "" /\ last.item.shape = "mask"
    /\ last.sid > 1
    /\ DictKeys(last.ret.any_columns) = {"id", "tag"}
    /\ DictKeys(last.ret.doc_columns) = {"doc"}
    /\ last.ret.document_type = "MyDoc"
    /\ ColumnStorage_len(last.ret) < ColumnStorage_len(stores[last.sid])

\* C22 (a view owns no data): whatever writes were made, a view is its index,
\* its storage and an empty dict of its own; a successful read through a view
\* returns what the storage's column holds at the view's row when the read is
\* made, so it returns a value written after the view was created, by another
\* view or straight into the column.
Thm_C22_ViewOwnsNoData ==
    /\ \A v \in 1..Len(views) :
          /\ DOMAIN views[v] = {"index", "storage", "data"}
          /\ views[v].data = <<>>
    /\ (last.op = "get" /\ last.err = "") =>
          last.val = Some(CellAt(last.sid, last.name, views[last.vid].index))

Wit_C22_ViewOwnsNoData ==
    /\ last.op = "get" /\ last.err = "" /\ last.name = "tag"
    /\ last.val = Some(9)
    /\ nsets = 1 /\ Len(views) = 2 /\ views[last.vid].data = <<>>

\* C23 (push/pull backend registry): over any sequence of get_backend calls, a
\* protocol is in __backends__ only after a get_backend call for it that
\* succeeded; get_backend of 'file', of 's3' and of a protocol the code does
\* not know raises NotImplementedError and leaves the registry as it was; a
\* registered protocol stays registered with the same backend, and every
\* later get_backend for it returns that backend.
Thm_C23_BackendRegistry ==
    [][ last'.op = "get_backend" =>
          /\ \A p \in DOMAIN backends' :
                \E j \in 1..Len(calls') : calls'[j].protocol = p /\ calls'[j].err = ""
          /\ last'.protocol \in {"file", "s3", "ftp"} =>
                last'.err = "NotImplementedError" /\ backends' = backends
          /\ \A p \in DOMAIN backends :
                /\ p \in DOMAIN backends' /\ backends'[p] = backends[p]
                /\ last'.protocol = p => (last'.err = "" /\ last'.ret = backends[p])
          /\ last'.err = "" => last'.ret = backends'[last'.protocol]
      ]_vars

Wit_C23_BackendRegistry ==
    /\ last.op = "get_backend" /\ Len(calls) = 3
    /\ calls[1] = [protocol |-> "jinaai", err |-> "", ret |-> "PushPullJAC"]
    /\ calls[2].protocol = "file" /\ calls[2].err = "NotImplementedError"
    /\ calls[3] = calls[1]
    /\ DOMAIN backends = {"jinaai"}

====
